---- MODULE Spec2Model ----
(***************************************************************************)
(* Model of upload_obs_recording_to_service.py: the command line is parsed *)
(* by parse_arguments, main resolves the input files and runs the encoder  *)
(* once per file, and the __main__ block turns the outcome into the        *)
(* process exit status.                                                    *)
(*                                                                         *)
(* Text is a sequence of one-character strings, so that upper(), stem and  *)
(* glob matching are computed character by character.  A path is a         *)
(* sequence of components, each component a text.                          *)
(***************************************************************************)
EXTENDS Integers, Sequences, FiniteSets, TLC

VARIABLES
    argv,         \* the command line, as the values given to each option
    pc,           \* position of the process
    ns,           \* the namespace parse_arguments returns / main's parameters
    scanned,      \* the directory tree Path.glob read (NotScanned before)
    input_files,  \* main's list input_files
    idx,          \* 1-based position of the for loop in input_files
    invocations,  \* the calls of ffmpeg.run made so far, in order
    retcodes,     \* per call: "running", "ok", "failed" or "nospawn"
    raised,       \* the exception that left main ("none" if none)
    exit_status   \* the process exit status (NoStatus while running)

vars == <<argv, pc, ns, scanned, input_files, idx, invocations, retcodes,
          raised, exit_status>>

(***************************************************************************)
(* Bounds of the model.                                                    *)
(***************************************************************************)
\* largest number of times --input-file is given on one command line
MaxInputFileArgs == 2
\* largest number of entries in the scanned input directory tree
MaxEntries == 4

(***************************************************************************)
(* Values.                                                                 *)
(***************************************************************************)
\* Python's None: an option that was not given
None == << >>
NotScanned == {[rel |-> << >>, kind |-> "not scanned"]}
NoStatus == -1

\* Path(a, b, ...) from components
P1(a) == <<a>>
P2(a, b) == <<a, b>>
P3(a, b, c) == <<a, b, c>>

t_mkv == <<".", "m", "k", "v">>
t_mov == <<".", "m", "o", "v">>
t_txt == <<".", "t", "x", "t">>
t_mp4 == <<".", "m", "p", "4">>
t_in  == <<"i", "n">>
t_out == <<"o", "u", "t">>
t_sub == <<"s", "u", "b">>
t_cwd == <<"/", "c", "w", "d">>
t_ffmpeg == <<"f", "f", "m", "p", "e", "g">>
t_bin == <<"b", "i", "n">>
t_a_mkv == <<"a">> \o t_mkv
t_b_mkv == <<"b">> \o t_mkv
t_c_txt == <<"c">> \o t_txt
t_a_mov == <<"a">> \o t_mov
t_d_mkv == <<"d">> \o t_mkv
t_rec == <<"r", "e", "c">>
t_clips == <<"c", "l", "i", "p", "s">>

(***************************************************************************)
(* str.upper() on the characters the service identifiers use.              *)
(***************************************************************************)
LowerLetters == <<"v", "i", "m", "e", "o", "y", "u", "t", "b", "s">>
UpperLetters == <<"V", "I", "M", "E", "O", "Y", "U", "T", "B", "S">>

upper_char(c) ==
    IF \E i \in 1..Len(LowerLetters) : LowerLetters[i] = c
    THEN UpperLetters[CHOOSE i \in 1..Len(LowerLetters) : LowerLetters[i] = c]
    ELSE c

upper(s) == [i \in 1..Len(s) |-> upper_char(s[i])]

(***************************************************************************)
(* class VideoService(VideoServiceMixin, Enum)                             *)
(***************************************************************************)
VideoService ==
    [VIMEO |->
        [name |-> <<"V", "I", "M", "E", "O">>,
         ffmpeg_output_kwargs |->
            [vcodec |-> "libx264", preset |-> "veryslow", crf |-> 18,
             acodec |-> "copy", pix_fmt |-> "yuv420p"],
         output_file_suffix |-> t_mp4],
     YOUTUBE |->
        [name |-> <<"Y", "O", "U", "T", "U", "B", "E">>,
         ffmpeg_output_kwargs |->
            [vcodec |-> "libx264", preset |-> "veryslow", crf |-> 19,
             acodec |-> "copy", pix_fmt |-> "yuv420p"],
         output_file_suffix |-> t_mp4]]

\* VideoService[arg_str.upper()], KeyError turned into ValueError
from_argument_exact(arg_str) ==
    IF \E m \in DOMAIN VideoService : VideoService[m].name = arg_str
    THEN [ok |-> TRUE,
          value |-> CHOOSE m \in DOMAIN VideoService :
                        VideoService[m].name = arg_str]
    ELSE [ok |-> FALSE, value |-> "ValueError"]

from_argument(arg_str) ==
    IF \E m \in DOMAIN VideoService : VideoService[m].name = upper(arg_str)
    THEN [ok |-> TRUE,
          value |-> CHOOSE m \in DOMAIN VideoService :
                        VideoService[m].name = upper(arg_str)]
    ELSE [ok |-> FALSE, value |-> "ValueError"]

(***************************************************************************)
(* pathlib                                                                 *)
(***************************************************************************)
\* PurePath.name: the last component
name(path) == path[Len(path)]

\* str.rfind("."), 1-based; 0 when there is no "."
rfind_dot(s) ==
    IF \E i \in 1..Len(s) : s[i] = "."
    THEN CHOOSE i \in 1..Len(s) :
            s[i] = "." /\ \A j \in (i + 1)..Len(s) : s[j] # "."
    ELSE 0

\* PurePath.stem: the name without its last suffix; a leading or a trailing
\* dot starts no suffix
stem(path) ==
    LET n == name(path)
        i == rfind_dot(n)
    IN  IF 1 < i /\ i < Len(n) THEN SubSeq(n, 1, i - 1) ELSE n

\* str(path): the components joined by "/"
RECURSIVE str(_)
str(path) ==
    IF Len(path) = 0 THEN << >>
    ELSE IF Len(path) = 1 THEN path[1]
    ELSE path[1] \o <<"/">> \o str(Tail(path))

\* fnmatch of one name against one pattern component: "*" and "?" are
\* wildcards, every other character stands for itself (the suffixes of the
\* model hold no "[...]" class); case matters, as on POSIX
RECURSIVE fnmatch(_, _)
fnmatch(n, pat) ==
    IF Len(pat) = 0 THEN Len(n) = 0
    ELSE IF pat[1] = "*"
         THEN fnmatch(n, Tail(pat))
              \/ (Len(n) > 0 /\ fnmatch(Tail(n), pat))
    ELSE IF Len(n) = 0 THEN FALSE
    ELSE IF pat[1] = "?" THEN fnmatch(Tail(n), Tail(pat))
    ELSE pat[1] = n[1] /\ fnmatch(Tail(n), Tail(pat))

\* "**/*{}".format(input_suffix)
input_pattern(input_suffix) == <<"*", "*", "/", "*">> \o input_suffix

\* Path.glob with a pattern "**/<name pattern>": every entry of the tree
\* under the directory, at any depth and of any kind, whose name matches
glob(directory, pattern, tree) ==
    IF SubSeq(pattern, 1, 3) = <<"*", "*", "/">>
    THEN {directory \o e.rel :
            e \in {x \in tree :
                    fnmatch(name(x.rel), SubSeq(pattern, 4, Len(pattern)))}}
    ELSE {}

\* the orders in which the file system may return the matches
Orderings(S) ==
    {s \in [1..Cardinality(S) -> S] :
        \A i, j \in 1..Cardinality(S) : i # j => s[i] # s[j]}

\* bool(x) of an optional Path: a Path is always true, None is false
truthy(x) == x # None

(***************************************************************************)
(* The inputs: command lines and directory trees.                          *)
(***************************************************************************)
ServiceArgs ==
    {<<"v", "i", "m", "e", "o">>, <<"V", "i", "M", "e", "O">>,
     <<"y", "o", "u", "t", "u", "b", "e">>,
     <<"Y", "O", "U", "T", "U", "B", "E">>,
     <<"v", "i", "m", "e", "o", "s">>}

InputPaths == {P1(t_rec \o t_mkv), P2(t_clips, t_rec \o t_mov)}

InputFileArgs ==
    UNION {[1..n -> InputPaths] : n \in 0..MaxInputFileArgs}

SuffixArgs == {<<"v">>, <<".", "m", "?", "v">>}

Argvs ==
    [video_service : ServiceArgs \cup {None},
     input_file : InputFileArgs,
     input_directory : {None, P1(t_in)},
     input_suffix : SuffixArgs \cup {None},
     converted_directory : {None, P1(t_out)},
     ffmpeg_exe : {None, P1(t_ffmpeg)},
     no_convert : BOOLEAN]

\* entries that may exist under the input directory, relative to it
Universe ==
    {[rel |-> P1(t_a_mkv), kind |-> "file"],
     [rel |-> P1(t_b_mkv), kind |-> "file"],
     [rel |-> P1(t_c_txt), kind |-> "file"],
     [rel |-> P1(t_a_mov), kind |-> "file"],
     [rel |-> P1(t_sub), kind |-> "dir"],
     [rel |-> P2(t_sub, t_a_mkv), kind |-> "file"],
     [rel |-> P1(t_d_mkv), kind |-> "dir"]}

\* a tree holds the directory of each of its entries
Trees ==
    {T \in SUBSET Universe :
        /\ Cardinality(T) <= MaxEntries
        /\ \A e \in T : Len(e.rel) > 1 =>
              [rel |-> SubSeq(e.rel, 1, Len(e.rel) - 1), kind |-> "dir"] \in T}

(***************************************************************************)
(* parse_arguments                                                         *)
(***************************************************************************)
NoNamespace ==
    [video_service |-> "unset", input_file |-> None, input_directory |-> None,
     input_suffix |-> None, converted_directory |-> None, ffmpeg_exe |-> None,
     convert_video |-> TRUE]

\* the namespace of a command line the parser accepts
namespace(a) ==
    [video_service |-> from_argument(a.video_service).value,
     input_file |-> IF Len(a.input_file) = 0 THEN None
                    ELSE a.input_file[Len(a.input_file)],
     input_directory |-> a.input_directory,
     input_suffix |-> IF a.input_suffix = None THEN t_mkv
                      ELSE a.input_suffix,
     converted_directory |-> IF a.converted_directory = None THEN P1(t_cwd)
                             ELSE a.converted_directory,
     ffmpeg_exe |-> IF a.ffmpeg_exe = None THEN P3(t_ffmpeg, t_bin, t_ffmpeg)
                    ELSE a.ffmpeg_exe,
     convert_video |-> ~a.no_convert]

\* --video-service is required and its type is VideoService.from_argument
service_error(a) ==
    \/ a.video_service = None
    \/ ~from_argument(a.video_service).ok

\* the group without the exclusion: one of the two options is required
input_group_error_required_only(a) ==
    Len(a.input_file) = 0 /\ a.input_directory = None

\* add_mutually_exclusive_group(required=True)
input_group_error(a) ==
    \/ Len(a.input_file) > 0 /\ a.input_directory # None
    \/ Len(a.input_file) = 0 /\ a.input_directory = None

\* parser.error(): the parser prints the usage and exits with status 2
parse_error(a) == service_error(a) \/ input_group_error(a)

parse_arguments ==
    /\ pc = "start"
    /\ IF parse_error(argv)
       THEN /\ pc' = "exited"
            /\ raised' = "SystemExit"
            /\ exit_status' = 2
            /\ ns' = ns
       ELSE /\ pc' = "main"
            /\ ns' = namespace(argv)
            /\ UNCHANGED <<raised, exit_status>>
    /\ UNCHANGED <<argv, scanned, input_files, idx, invocations, retcodes>>

(***************************************************************************)
(* main                                                                    *)
(***************************************************************************)
\* "if convert_video:" with the flag ignored
convert_enabled_always(n) == TRUE

\* "if convert_video:"
convert_enabled(n) == n.convert_video

\* the output name built from the whole file name
output_filename_from_name(input_file, output_suffix) ==
    name(input_file) \o output_suffix

\* output_filename = input_file.stem + output_suffix
output_filename(input_file, output_suffix) ==
    stem(input_file) \o output_suffix

\* output_file = converted_directory / output_filename
output_file(n, input_file) ==
    n.converted_directory
        \o P1(output_filename(input_file,
                  VideoService[n.video_service].output_file_suffix))

\* the stream handed to ffmpeg.run and the executable it is run with
invocation(n, input_file) ==
    [input |-> str(input_file),
     output |-> str(output_file(n, input_file)),
     kwargs |-> VideoService[n.video_service].ffmpeg_output_kwargs,
     cmd |-> str(n.ffmpeg_exe)]

\* conversion disabled: main falls through to "return 0"
main_no_convert ==
    /\ pc = "main"
    /\ ~convert_enabled(ns)
    /\ pc' = "returned"
    /\ UNCHANGED <<argv, ns, scanned, input_files, idx, invocations,
                   retcodes, raised, exit_status>>

\* input_files = list(input_file) if input_file else
\*               list(input_directory.glob(input_pattern))
main_resolve ==
    /\ pc = "main"
    /\ convert_enabled(ns)
    /\ IF truthy(ns.input_file)
       THEN \* list() of a Path: 'PosixPath' object is not iterable
            /\ pc' = "raised"
            /\ raised' = "TypeError"
            /\ UNCHANGED <<scanned, input_files, idx>>
       ELSE IF ns.input_directory = None
       THEN \* None has no attribute glob
            /\ pc' = "raised"
            /\ raised' = "AttributeError"
            /\ UNCHANGED <<scanned, input_files, idx>>
       ELSE \E tree \in Trees :
              \E order \in Orderings(glob(ns.input_directory,
                                          input_pattern(ns.input_suffix),
                                          tree)) :
                /\ scanned' = tree
                /\ input_files' = order
                /\ idx' = 1
                /\ pc' = "loop"
                /\ raised' = raised
    /\ UNCHANGED <<argv, ns, invocations, retcodes, exit_status>>

\* a spawn that does not wait: the loop goes on while the encoder runs
convert_start_async ==
    /\ pc = "loop"
    /\ idx <= Len(input_files)
    /\ invocations' = Append(invocations, invocation(ns, input_files[idx]))
    /\ retcodes' = Append(retcodes, "running")
    /\ idx' = idx + 1
    /\ UNCHANGED <<argv, pc, ns, scanned, input_files, raised, exit_status>>

\* one iteration of the for loop up to the spawn inside ffmpeg.run, which
\* then blocks in communicate()
convert_start ==
    /\ pc = "loop"
    /\ idx <= Len(input_files)
    /\ invocations' = Append(invocations, invocation(ns, input_files[idx]))
    /\ retcodes' = Append(retcodes, "running")
    /\ pc' = "waiting"
    /\ UNCHANGED <<argv, ns, scanned, input_files, idx, raised, exit_status>>

\* one iteration whose ffmpeg.run cannot start the executable
convert_spawn_fails ==
    /\ pc = "loop"
    /\ idx <= Len(input_files)
    /\ invocations' = Append(invocations, invocation(ns, input_files[idx]))
    /\ retcodes' = Append(retcodes, "nospawn")
    /\ pc' = "raised"
    /\ raised' = "FileNotFoundError"
    /\ UNCHANGED <<argv, ns, scanned, input_files, idx, exit_status>>

\* an encoder exit whose failure is swallowed: the loop goes on
ffmpeg_exit_swallow ==
    /\ pc = "waiting"
    /\ \E rc \in {"ok", "failed"} :
         retcodes' = [retcodes EXCEPT ![Len(retcodes)] = rc]
    /\ pc' = "loop"
    /\ idx' = idx + 1
    /\ UNCHANGED <<argv, ns, scanned, input_files, invocations, raised,
                   exit_status>>

\* the encoder process exits: ffmpeg.run returns, or raises ffmpeg.Error
\* on a non-zero return code, which nothing in main catches
ffmpeg_exit ==
    /\ pc = "waiting"
    /\ \E rc \in {"ok", "failed"} :
         /\ retcodes' = [retcodes EXCEPT ![Len(retcodes)] = rc]
         /\ IF rc = "ok"
            THEN /\ pc' = "loop"
                 /\ idx' = idx + 1
                 /\ raised' = raised
            ELSE /\ pc' = "raised"
                 /\ idx' = idx
                 /\ raised' = "ffmpeg.Error"
    /\ UNCHANGED <<argv, ns, scanned, input_files, invocations, exit_status>>

\* the for loop is exhausted: return 0
main_return ==
    /\ pc = "loop"
    /\ idx > Len(input_files)
    /\ pc' = "returned"
    /\ UNCHANGED <<argv, ns, scanned, input_files, idx, invocations,
                   retcodes, raised, exit_status>>

(***************************************************************************)
(* The __main__ block: exit( main( parse_arguments( sys.argv ) ) )         *)
(***************************************************************************)
\* exit(0) after main returned; an uncaught exception ends the interpreter
\* with status 1
exit_process ==
    /\ pc \in {"returned", "raised"}
    /\ exit_status' = IF pc = "returned" THEN 0 ELSE 1
    /\ pc' = "exited"
    /\ UNCHANGED <<argv, ns, scanned, input_files, idx, invocations,
                   retcodes, raised>>

(***************************************************************************)
(* The script run from the command line.                                   *)
(***************************************************************************)
Init ==
    /\ argv \in Argvs
    /\ pc = "start"
    /\ ns = NoNamespace
    /\ scanned = NotScanned
    /\ input_files = << >>
    /\ idx = 1
    /\ invocations = << >>
    /\ retcodes = << >>
    /\ raised = "none"
    /\ exit_status = NoStatus

Next ==
    \/ parse_arguments
    \/ main_no_convert
    \/ main_resolve
    \/ convert_start
    \/ convert_spawn_fails
    \/ ffmpeg_exit
    \/ main_return
    \/ exit_process

Spec == Init /\ [][Next]_vars

(***************************************************************************)
(* main called as a function, with any values of its parameters.           *)
(***************************************************************************)
NoArgv ==
    [video_service |-> None, input_file |-> << >>, input_directory |-> None,
     input_suffix |-> None, converted_directory |-> None, ffmpeg_exe |-> None,
     no_convert |-> FALSE]

MainArgs ==
    [video_service : DOMAIN VideoService,
     input_file : InputPaths \cup {None},
     input_directory : {None, P1(t_in)},
     input_suffix : SuffixArgs \cup {t_mkv},
     converted_directory : {P1(t_cwd), P1(t_out)},
     ffmpeg_exe : {P3(t_ffmpeg, t_bin, t_ffmpeg), P1(t_ffmpeg)},
     convert_video : BOOLEAN]

InitMain ==
    /\ argv = NoArgv
    /\ pc = "main"
    /\ ns \in MainArgs
    /\ scanned = NotScanned
    /\ input_files = << >>
    /\ idx = 1
    /\ invocations = << >>
    /\ retcodes = << >>
    /\ raised = "none"
    /\ exit_status = NoStatus

NextMain ==
    \/ main_no_convert
    \/ main_resolve
    \/ convert_start
    \/ convert_spawn_fails
    \/ ffmpeg_exit
    \/ main_return

SpecMain == InitMain /\ [][NextMain]_vars

(***************************************************************************)
(* Vocabulary of the properties, stated apart from the code's operators.   *)
(***************************************************************************)
\* s spells the word in some mix of lower and upper case
CaseVariantOf(s, lower, upperw) ==
    /\ Len(s) = Len(lower)
    /\ \A i \in 1..Len(s) : s[i] \in {lower[i], upperw[i]}

IsVimeoId(s) ==
    CaseVariantOf(s, <<"v", "i", "m", "e", "o">>, <<"V", "I", "M", "E", "O">>)

IsYoutubeId(s) ==
    CaseVariantOf(s, <<"y", "o", "u", "t", "u", "b", "e">>,
                  <<"Y", "O", "U", "T", "U", "B", "E">>)

ExpectedKwargs(crf) ==
    [vcodec |-> "libx264", preset |-> "veryslow", crf |-> crf,
     acodec |-> "copy", pix_fmt |-> "yuv420p"]

ExpectedKwargsOf(s) ==
    IF IsVimeoId(s) THEN ExpectedKwargs(18) ELSE ExpectedKwargs(19)

FileGiven == Len(argv.input_file) > 0
DirectoryGiven == argv.input_directory # None
BothModes == FileGiven /\ DirectoryGiven
NeitherMode == ~FileGiven /\ ~DirectoryGiven
ServiceRecognized ==
    /\ argv.video_service # None
    /\ IsVimeoId(argv.video_service) \/ IsYoutubeId(argv.video_service)
AcceptedCommandLine == ServiceRecognized /\ (FileGiven # DirectoryGiven)

ConvertedDirectory ==
    IF argv.converted_directory = None THEN P1(t_cwd)
    ELSE argv.converted_directory

EncoderExe ==
    IF argv.ffmpeg_exe = None THEN P3(t_ffmpeg, t_bin, t_ffmpeg)
    ELSE argv.ffmpeg_exe

EndsWith(s, suffix) ==
    /\ Len(s) >= Len(suffix)
    /\ SubSeq(s, Len(s) - Len(suffix) + 1, Len(s)) = suffix

NothingTouched ==
    /\ scanned = NotScanned
    /\ input_files = << >>
    /\ invocations = << >>
    /\ retcodes = << >>

Failed(k) == retcodes[k] \in {"failed", "nospawn"}

(***************************************************************************)
(* Properties.                                                             *)
(***************************************************************************)
\* C1: with an explicit --input-file list of N paths, conversion enabled
\* and every encoder invocation succeeding, the finished run has made
\* exactly N invocations, the k-th with the k-th path as source,
\* {converted-directory}/{stem}{service suffix} as destination and the
\* selected service's parameter set.
C1_ExplicitFileListInvoked ==
    (/\ pc = "exited"
     /\ AcceptedCommandLine
     /\ FileGiven
     /\ ~argv.no_convert
     /\ \A k \in 1..Len(retcodes) : retcodes[k] = "ok")
    => /\ Len(invocations) = Len(argv.input_file)
       /\ \A k \in 1..Len(invocations) :
            invocations[k] =
              [input |-> str(argv.input_file[k]),
               output |-> str(ConvertedDirectory
                              \o P1(stem(argv.input_file[k]) \o t_mp4)),
               kwargs |-> ExpectedKwargsOf(argv.video_service),
               cmd |-> str(EncoderExe)]

\* C2: a failed encoder invocation is the last invocation of the run: no
\* later invocation is made, the failed file is not invoked again, main
\* is left by the exception and the exit status is non-zero.
C2_FailFast ==
    \A k \in 1..Len(retcodes) :
        Failed(k) =>
            /\ k = Len(invocations)
            /\ pc \in {"raised", "exited"}
            /\ raised \in {"ffmpeg.Error", "FileNotFoundError"}
            /\ pc = "exited" => exit_status \notin {0, NoStatus}
            /\ \A j \in 1..Len(invocations) :
                 j # k => invocations[j].input # invocations[k].input

\* a finished run whose second invocation failed with files left over
C2_Witness ==
    /\ pc = "exited"
    /\ Len(retcodes) = 2
    /\ retcodes[1] = "ok"
    /\ retcodes[2] = "failed"
    /\ Len(input_files) > 2

\* C3: given --no-convert, no encoder is invoked and nothing is read or
\* written, whatever the other arguments; and for every input mode,
\* service, directory and executable path the parser accepts, the process
\* exits 0.
C3_NoConvert ==
    argv.no_convert =>
        /\ NothingTouched
        /\ AcceptedCommandLine =>
              /\ pc \in {"start", "main", "returned", "exited"}
              /\ raised = "none"
              /\ pc = "exited" => exit_status = 0

\* a finished --no-convert run in file mode
C3_Witness ==
    /\ argv.no_convert
    /\ FileGiven
    /\ argv.ffmpeg_exe # None
    /\ pc = "exited"
    /\ exit_status = 0

\* C4: at most one encoder process is in flight, every invocation before
\* the latest has exited, and the k-th invocation is for the k-th
\* resolved file.
C4_Sequential ==
    /\ Cardinality({k \in 1..Len(retcodes) : retcodes[k] = "running"}) <= 1
    /\ \A k \in 1..(Len(retcodes) - 1) : retcodes[k] # "running"
    /\ Len(invocations) <= Len(input_files)
    /\ Len(retcodes) = Len(invocations)
    /\ \A k \in 1..Len(invocations) :
         invocations[k].input = str(input_files[k])

\* the third encoder of a batch is running
C4_Witness ==
    /\ Len(invocations) = 3
    /\ retcodes[3] = "running"
    /\ input_files[1] # input_files[2]

\* C5: a command line with both --input-file and --input-directory, or
\* with neither, ends in the parser with a non-zero status, before any
\* resolution or encoder invocation.
C5_InputModesRejected ==
    (BothModes \/ NeitherMode) =>
        /\ pc \in {"start", "exited"}
        /\ NothingTouched
        /\ ns = NoNamespace
        /\ pc = "exited" =>
              /\ exit_status \notin {0, NoStatus}
              /\ raised = "SystemExit"

\* a rejected command line that gives both options and a known service
C5_Witness ==
    /\ BothModes
    /\ ServiceRecognized
    /\ ~argv.no_convert
    /\ pc = "exited"
    /\ exit_status = 2

\* C6: an identifier that spells vimeo or youtube in any letter case is
\* looked up to that service's parameter set (crf 18, resp. 19) and
\* suffix .mp4, which every invocation then carries; any other identifier
\* ends the run in the parser, before anything is touched.
C6_ServiceLookup ==
    argv.video_service # None =>
        IF ServiceRecognized
        THEN /\ from_argument(argv.video_service).ok
             /\ LET service == from_argument(argv.video_service).value
                IN  /\ service =
                         (IF IsVimeoId(argv.video_service) THEN "VIMEO"
                          ELSE "YOUTUBE")
                    /\ VideoService[service].ffmpeg_output_kwargs =
                         ExpectedKwargsOf(argv.video_service)
                    /\ VideoService[service].output_file_suffix = t_mp4
                    /\ (FileGiven # DirectoryGiven) /\ pc # "start"
                          => ns.video_service = service
             /\ \A k \in 1..Len(invocations) :
                  /\ invocations[k].kwargs =
                       ExpectedKwargsOf(argv.video_service)
                  /\ EndsWith(invocations[k].output, t_mp4)
        ELSE /\ pc \in {"start", "exited"}
             /\ NothingTouched
             /\ pc = "exited" =>
                   /\ exit_status \notin {0, NoStatus}
                   /\ raised = "SystemExit"

\* a mixed-case identifier whose run invoked the encoder with crf 18
C6_Witness ==
    /\ argv.video_service = <<"V", "i", "M", "e", "O">>
    /\ pc = "exited"
    /\ Len(invocations) > 0
    /\ invocations[1].kwargs.crf = 18

\* C7: in directory mode the inputs selected are exactly the files under
\* the input directory whose name ends with the suffix, each once.
C7_DirectorySelection ==
    scanned # NotScanned =>
        /\ {input_files[i] : i \in 1..Len(input_files)} =
             {ns.input_directory \o e.rel :
                e \in {x \in scanned :
                        /\ x.kind = "file"
                        /\ EndsWith(name(x.rel), ns.input_suffix)}}
        /\ \A i, j \in 1..Len(input_files) :
             i # j => input_files[i] # input_files[j]

\* C8: the exit status is 0 exactly when the command line is accepted and
\* no encoder invocation failed.
C8_ExitStatus ==
    pc = "exited" =>
        (exit_status = 0 <=>
            /\ AcceptedCommandLine
            /\ \A k \in 1..Len(retcodes) : ~Failed(k))

\* C9: main called with neither an input file nor an input directory and
\* conversion enabled resolves an empty file sequence, invokes nothing
\* and returns without error.
C9_NeitherModeEmpty ==
    (/\ ns.input_file = None
     /\ ns.input_directory = None
     /\ ns.convert_video
     /\ pc # "main")
    => /\ pc \in {"loop", "returned"}
       /\ raised = "none"
       /\ input_files = << >>
       /\ invocations = << >>

\* C10: within one batch two invocations are given the same output path
\* exactly when their input files have the same stem, whatever the
\* inputs' parent directories and extensions.
C10_OutputPathByStem ==
    \A j, k \in 1..Len(invocations) :
        (stem(input_files[j]) = stem(input_files[k]))
            <=> (invocations[j].output = invocations[k].output)

\* three invocations: two inputs of equal stem in different directories,
\* given one output path, and an input of another stem given another
C10_Witness ==
    /\ Len(invocations) = 3
    /\ \E j, k, l \in 1..3 :
         /\ Len(input_files[j]) # Len(input_files[k])
         /\ invocations[j].input # invocations[k].input
         /\ invocations[j].output = invocations[k].output
         /\ invocations[l].output # invocations[j].output

====
